---- MODULE Spec2Model ----
(***************************************************************************)
(* Model of the time-axis R-CNN post-processing code:                      *)
(*   generate_anchors.py      - the dense 1-D anchor grid                  *)
(*   faster_rcnn_predictor.py - TimeSegmentRCNNPredictor: use_preset,      *)
(*                              predict (decode + clip) and _suppress      *)
(*                                                                         *)
(* Floating-point coordinates are kept as exact fixed-point integers:      *)
(* anchors in units of 1/AnchorUnit, predictor coordinates in units of     *)
(* 1/CU, thresholds in units of 1/ThreshDen, softmax scores as exact       *)
(* fractions <<numerator, denominator>>.                                   *)
(***************************************************************************)
EXTENDS Integers, Sequences, FiniteSets, TLC

VARIABLES
    \* ---- generate_anchors.py ----
    a_pc,          \* position in get_all_anchors: "start", "base", "done"
    a_args,        \* [time_seq_len, stride, sizes] of the call
    a_base,        \* base_anchors (A, 2)
    a_field,       \* field_of_anchors (K, A, 2)
    \* ---- TimeSegmentRCNNPredictor ----
    n_class,       \* self.head.n_class
    n_rois,        \* R, the number of RoIs self.spn proposes for one element
    nms_thresh,    \* self.nms_thresh  : [set, val]; the attribute does not exist until assigned
    score_thresh,  \* self.score_thresh: [set, val]
    last_call,     \* the most recent call made on the predictor and how it ended
    last_preset,   \* the most recent valid use_preset name, "none" once a threshold is assigned directly
    pc,            \* position of predict: "idle", "loop", "suppress"
    err,           \* exception that ended the last predict ("none" if it returned or still runs)
    batch_i,       \* index of the batch element the for-loop of predict is at
    net,           \* what self.__call__ returned for the element: rois, roi_indices, locs, scores
    raw_cls_bbox,  \* decoded and clipped segments (R, class, 2)
    raw_prob,      \* softmax scores (R, class)
    cls_l,         \* loop variable l of _suppress
    bbox,          \* _suppress: list of per-class segment arrays
    label,         \* _suppress: list of per-class label arrays
    score,         \* _suppress: list of per-class score arrays
    nms_calls,     \* the non_maximum_suppression calls of the running _suppress, in order
    bboxes,        \* predict: result lists, one entry per batch element
    labels,
    scores

anchor_vars == <<a_pc, a_args, a_base, a_field>>
config_vars == <<nms_thresh, score_thresh, last_preset>>
predict_vars == <<pc, err, batch_i, net, raw_cls_bbox, raw_prob, cls_l, bbox, label,
                  score, nms_calls, bboxes, labels, scores>>
vars == <<anchor_vars, n_class, n_rois, config_vars, last_call, predict_vars>>

(***************************************************************************)
(* Bounds of the model                                                     *)
(***************************************************************************)
MaxStride == 3
MaxSeqLen == 6
MaxScales == 2
MaxScaleNum == 4
MaxClass == 3
MaxRois == 2
FeatureLen == 8

(***************************************************************************)
(* Helpers                                                                 *)
(***************************************************************************)
Min(a, b) == IF a < b THEN a ELSE b

Max(a, b) == IF a > b THEN a ELSE b

SeqsUpTo(S, n) == UNION {[1..k -> S] : k \in 0..n}

RECURSIVE Concat(_)
Concat(ss) == IF ss = <<>> THEN <<>> ELSE Head(ss) \o Concat(Tail(ss))

RECURSIVE SumSeq(_)
SumSeq(s) == IF s = <<>> THEN 0 ELSE Head(s) + SumSeq(Tail(s))

(***************************************************************************)
(* generate_anchors.py                                                     *)
(* Scales are given in halves (ScaleDen), coordinates in quarters          *)
(* (AnchorUnit), so that 0.5 * (w * scale - 1) is exact.                   *)
(***************************************************************************)
ScaleDen == 2
AnchorUnit == 4

\* _whctrs(anchor): w = anchor[1] - anchor[0] + 1 ; x_ctr = anchor[0] + 0.5 * (w - 1)
_whctrs_nowidthfix(anchor) ==
    LET w == anchor[2] - anchor[1]
    IN  [w |-> w, x_ctr |-> anchor[1] + (w - AnchorUnit) \div 2]

_whctrs(anchor) ==
    LET w == anchor[2] - anchor[1] + AnchorUnit
    IN  [w |-> w, x_ctr |-> anchor[1] + (w - AnchorUnit) \div 2]

\* _mkanchors(ws, x_ctr): one row (x_ctr - 0.5 * (ws - 1), x_ctr + 0.5 * (ws - 1)) per width
_mkanchors(ws, x_ctr) ==
    [a \in 1..Len(ws) |-> << x_ctr - (ws[a] - AnchorUnit) \div 2,
                             x_ctr + (ws[a] - AnchorUnit) \div 2 >>]

\* _scale_enum(anchor, scales): ws = w * scales
_scale_enum(anchor, scales) ==
    LET wc == _whctrs(anchor)
        ws == [a \in 1..Len(scales) |-> (wc.w * scales[a]) \div ScaleDen]
    IN  _mkanchors(ws, wc.x_ctr)

\* generate_anchors(base_size, scales): base_anchor = [1, base_size] - 1
generate_anchors(base_size, scales) ==
    _scale_enum(<< (1 - 1) * AnchorUnit, (base_size - 1) * AnchorUnit >>, scales)

\* field_size = time_seq_len // stride
field_size_ceil(time_seq_len, stride) == (time_seq_len + stride - 1) \div stride

field_size(time_seq_len, stride) == time_seq_len \div stride

\* shifts_x = np.arange(0, field_size) * stride ; shifts = stack((shifts_x, shifts_x), axis=1)
shifts(time_seq_len, stride) ==
    [k \in 1..field_size(time_seq_len, stride) |->
        << (k - 1) * stride * AnchorUnit, (k - 1) * stride * AnchorUnit >>]

\* base_anchors.reshape((1, A, 2)) + shifts.reshape((1, K, 2)).transpose((1, 0, 2)) : (K, A, 2)
field_of_anchors(base_anchors, sh) ==
    [k \in 1..Len(sh) |->
        [a \in 1..Len(base_anchors) |->
            << base_anchors[a][1] + sh[k][1], base_anchors[a][2] + sh[k][2] >>]]

AnchorArgs ==
    [time_seq_len : 0..MaxSeqLen,
     stride : 1..MaxStride,
     sizes : SeqsUpTo(1..MaxScaleNum, MaxScales)]

AnchorInit ==
    /\ a_pc = "start"
    /\ a_args \in AnchorArgs
    /\ a_base = <<>>
    /\ a_field = <<>>

AnchorIdle ==
    /\ a_pc = "start"
    /\ a_args = [time_seq_len |-> 0, stride |-> 1, sizes |-> <<>>]
    /\ a_base = <<>>
    /\ a_field = <<>>

\* get_all_anchors, line 56
GetBaseAnchors ==
    /\ a_pc = "start"
    /\ a_base' = generate_anchors(a_args.stride, a_args.sizes)
    /\ a_pc' = "base"
    /\ UNCHANGED <<a_args, a_field>>

\* get_all_anchors, lines 58-72
TileAnchors ==
    /\ a_pc = "base"
    /\ a_field' = field_of_anchors(a_base, shifts(a_args.time_seq_len, a_args.stride))
    /\ a_pc' = "done"
    /\ UNCHANGED <<a_args, a_base>>

(***************************************************************************)
(* faster_rcnn_predictor.py : TimeSegmentRCNNPredictor                     *)
(***************************************************************************)
CU == 80
ThreshDen == 100
LocDen == 10
ExpDen == 8
\* "We are assuming that batch size is 1."
BatchSize == 1

\* __init__ defaults: loc_normalize_mean=(0., 0.), loc_normalize_std=(0.1, 0.2), in 1/LocDen
loc_normalize_mean == <<0, 0>>

loc_normalize_std == <<1, 2>>

Unset == [set |-> FALSE, val |-> 0]

Assigned(v) == [set |-> TRUE, val |-> v]

NoCall == [op |-> "none", arg |-> "", raised |-> FALSE, pre |-> <<Unset, Unset>>]

NoNet == [rois |-> <<>>, roi_indices |-> <<>>, roi_cls_locs |-> <<>>, roi_scores |-> <<>>]

(***************************************************************************)
(* Outputs of the external networks self.spn and self.head, as returned    *)
(* by __call__: R proposals, each a RoI, its group index, one raw          *)
(* (dx, dw) pair per class and one logit per class.  A logit z is kept     *)
(* as the integer exp(z), so that softmax is an exact fraction.            *)
(***************************************************************************)
RoiSet == { <<0 * CU, 3 * CU>>, <<2 * CU, 5 * CU>> }

Groups == {0, 1}

\* raw localisation rows: all zero, or a different offset for every class
LocByClass(c) ==
    CASE c = 0 -> <<0, 0>>
      [] c = 1 -> <<30, 0>>
      [] c = 2 -> <<0, -10>>
      [] OTHER -> <<-30, 5>>

LocRows(n) == { [c \in 1..n |-> <<0, 0>>], [c \in 1..n |-> LocByClass(c - 1)] }

\* logit rows: the last foreground class peaked (softmax 20/21, the other classes below
\* 0.05), or the first foreground class at softmax exactly 7/10 (the others above 0.05)
LogitRows(n) ==
    IF n >= 2
    THEN {[c \in 1..n |-> IF c = n THEN 20 * (n - 1) ELSE 1],
          [c \in 1..n |-> IF c = 2 THEN 7 * (n - 1) ELSE 3]}
    ELSE {[c \in 1..n |-> 1]}

\* the proposal layer emits the RoIs of one group after those of the previous group
GroupRows(R) == {g \in [1..R -> Groups] : \A i, j \in 1..R : i < j => g[i] <= g[j]}

NetOutputs(n, R) ==
    [rois : [1..R -> RoiSet],
     roi_indices : GroupRows(R),
     roi_cls_locs : [1..R -> LocRows(n)],
     roi_scores : [1..R -> LogitRows(n)]]

(***************************************************************************)
(* decode_segment_target (util/bbox/bbox_util.py) and                      *)
(* non_maximum_suppression (util/bbox/non_maximum_suppression.py)          *)
(***************************************************************************)
\* exp(dw) for dw in 1/LocDen, rounded to 1/ExpDen: exp(-2) = 0.135, exp(0) = 1, exp(1) = 2.718
Exp(dw) ==
    CASE dw = -20 -> 1
      [] dw = 0 -> 8
      [] dw = 10 -> 22

decode_segment_target(ref, loc) ==
    LET ref_width == ref[2] - ref[1] + CU
        ref_ctr == ref[1] + (ref_width - CU) \div 2
        ctr == (loc[1] * ref_width) \div LocDen + ref_ctr
        width == (Exp(loc[2]) * ref_width) \div ExpDen
    IN  << ctr - (width - CU) \div 2, ctr + (width - CU) \div 2 >>

\* a > b for fractions <<num, den>> with positive denominators
FracGT(a, b) == a[1] * b[2] > b[1] * a[2]

\* IoU(a, b) > thresh / ThreshDen, with the +1 width convention
IoUExceeds(a, b, thresh) ==
    LET inter == Max(0, Min(a[2], b[2]) - Max(a[1], b[1]) + CU)
        union == (a[2] - a[1] + CU) + (b[2] - b[1] + CU) - inter
    IN  inter * ThreshDen > thresh * union

\* indices by descending score, ties by input order
RECURSIVE ScoreOrder(_, _)
ScoreOrder(S, prob) ==
    IF S = {} THEN <<>>
    ELSE LET best == CHOOSE i \in S :
                        \A j \in S \ {i} : FracGT(prob[i], prob[j])
                                           \/ (~FracGT(prob[j], prob[i]) /\ i < j)
         IN  <<best>> \o ScoreOrder(S \ {best}, prob)

RECURSIVE Greedy(_, _, _)
Greedy(order, box, thresh) ==
    IF order = <<>> THEN <<>>
    ELSE LET i == Head(order)
             keepj(j) == ~IoUExceeds(box[i], box[j], thresh)
         IN  <<i>> \o Greedy(SelectSeq(Tail(order), keepj), box, thresh)

non_maximum_suppression(box, thresh, prob) ==
    Greedy(ScoreOrder(1..Len(box), prob), box, thresh)

(***************************************************************************)
(* predict, lines 250-269: de-normalise, decode, clip, softmax             *)
(***************************************************************************)
\* roi_cls_loc * std + mean, in 1/LocDen
Denormalize(loc) ==
    << (loc[1] * loc_normalize_std[1]) + loc_normalize_mean[1],
       (loc[2] * loc_normalize_std[2]) + loc_normalize_mean[2] >>

\* xp.clip(cls_bbox, 0, seq_len)
clip(x, lo, hi) == Min(Max(x, lo), hi)

ClsBbox(out, seq_len) ==
    [r \in 1..Len(out.rois) |->
        [c \in 1..Len(out.roi_cls_locs[r]) |->
            LET b == decode_segment_target(out.rois[r], Denormalize(out.roi_cls_locs[r][c]))
            IN  << clip(b[1], 0, seq_len * CU), clip(b[2], 0, seq_len * CU) >>]]

\* F.softmax(roi_score)
softmax(out) ==
    [r \in 1..Len(out.roi_scores) |->
        [c \in 1..Len(out.roi_scores[r]) |->
            << out.roi_scores[r][c], SumSeq(out.roi_scores[r]) >>]]

(***************************************************************************)
(* _suppress, one iteration of "for l in range(1, self.n_class)"           *)
(***************************************************************************)
\* mask = prob_l > self.score_thresh : the proposals it selects, in input order
Mask_geq(prob, l, thresh) ==
    SelectSeq([r \in 1..Len(prob) |-> r],
              LAMBDA r : prob[r][l + 1][1] * ThreshDen >= thresh * prob[r][l + 1][2])

Mask(prob, l, thresh) ==
    SelectSeq([r \in 1..Len(prob) |-> r],
              LAMBDA r : prob[r][l + 1][1] * ThreshDen > thresh * prob[r][l + 1][2])

\* (l - 1) * np.ones((len(keep),))
ClassLabel(l) == l - 1

\* bbox.append(...): where the arrays of class l go in the running lists
Accumulate_front(lst, arr) == <<arr>> \o lst

Accumulate(lst, arr) == Append(lst, arr)

SuppressOne(l) ==
    LET cand == Mask(raw_prob, l, score_thresh.val)
        cls_bbox_l == [i \in 1..Len(cand) |-> raw_cls_bbox[cand[i]][l + 1]]
        prob_l == [i \in 1..Len(cand) |-> raw_prob[cand[i]][l + 1]]
        keep == non_maximum_suppression(cls_bbox_l, nms_thresh.val, prob_l)
    IN  [l |-> l,
         cand |-> cand,
         keep |-> keep,
         score_thresh |-> score_thresh.val,
         nms_thresh |-> nms_thresh.val,
         bbox |-> [i \in 1..Len(keep) |-> cls_bbox_l[keep[i]]],
         score |-> [i \in 1..Len(keep) |-> prob_l[keep[i]]],
         label |-> [i \in 1..Len(keep) |-> ClassLabel(l)]]

(***************************************************************************)
(* State after construction (__init__ assigns neither threshold)           *)
(***************************************************************************)
PredictIdle ==
    /\ pc = "idle"
    /\ err = "none"
    /\ batch_i = 0
    /\ net = NoNet
    /\ raw_cls_bbox = <<>>
    /\ raw_prob = <<>>
    /\ cls_l = 0
    /\ bbox = <<>>
    /\ label = <<>>
    /\ score = <<>>
    /\ nms_calls = <<>>
    /\ bboxes = <<>>
    /\ labels = <<>>
    /\ scores = <<>>

PredictorInit ==
    /\ n_class \in 1..MaxClass
    /\ n_rois \in 0..MaxRois
    /\ nms_thresh = Unset
    /\ score_thresh = Unset
    /\ last_preset = "none"
    /\ last_call = NoCall
    /\ PredictIdle

\* the locals of predict go away when it returns or raises
Leave(e) ==
    /\ pc' = "idle"
    /\ err' = e
    /\ batch_i' = 0
    /\ net' = NoNet
    /\ raw_cls_bbox' = <<>>
    /\ raw_prob' = <<>>
    /\ cls_l' = 0
    /\ bbox' = <<>>
    /\ label' = <<>>
    /\ score' = <<>>
    /\ nms_calls' = <<>>
    /\ bboxes' = <<>>
    /\ labels' = <<>>
    /\ scores' = <<>>

(***************************************************************************)
(* Configuration: use_preset and direct assignment of the attributes       *)
(***************************************************************************)
PresetNames == {"visualize", "evaluate", "invalid"}

NmsOverrides == {60}

ScoreOverrides == {0}

PresetValues_swapped(preset) ==
    IF preset = "visualize" THEN <<Assigned(30), Assigned(5)>>
    ELSE IF preset = "evaluate" THEN <<Assigned(30), Assigned(70)>>
    ELSE <<>>

\* the (nms_thresh, score_thresh) a preset assigns; <<>> for the else branch
PresetValues(preset) ==
    IF preset = "visualize" THEN <<Assigned(30), Assigned(70)>>
    ELSE IF preset = "evaluate" THEN <<Assigned(30), Assigned(5)>>
    ELSE <<>>

UsePreset(preset) ==
    /\ last_call' = [op |-> "use_preset", arg |-> preset,
                     raised |-> PresetValues(preset) = <<>>,
                     pre |-> <<nms_thresh, score_thresh>>]
    /\ IF PresetValues(preset) = <<>>
       THEN UNCHANGED config_vars          \* raise ValueError
       ELSE /\ nms_thresh' = PresetValues(preset)[1]
            /\ score_thresh' = PresetValues(preset)[2]
            /\ last_preset' = preset
    /\ UNCHANGED <<anchor_vars, n_class, n_rois, predict_vars>>

SetNmsThresh(v) ==
    /\ nms_thresh' = Assigned(v)
    /\ last_preset' = "none"
    /\ last_call' = [op |-> "set_nms_thresh", arg |-> "", raised |-> FALSE,
                     pre |-> <<nms_thresh, score_thresh>>]
    /\ UNCHANGED <<anchor_vars, n_class, n_rois, score_thresh, predict_vars>>

SetScoreThresh(v) ==
    /\ score_thresh' = Assigned(v)
    /\ last_preset' = "none"
    /\ last_call' = [op |-> "set_score_thresh", arg |-> "", raised |-> FALSE,
                     pre |-> <<nms_thresh, score_thresh>>]
    /\ UNCHANGED <<anchor_vars, n_class, n_rois, nms_thresh, predict_vars>>

(***************************************************************************)
(* predict                                                                 *)
(***************************************************************************)
\* lines 233-236: the call starts with empty result lists
Predict ==
    /\ pc = "idle"
    /\ pc' = "loop"
    /\ err' = "none"
    /\ batch_i' = 1
    /\ bboxes' = <<>>
    /\ labels' = <<>>
    /\ scores' = <<>>
    /\ last_call' = [op |-> "predict", arg |-> "", raised |-> FALSE,
                     pre |-> <<nms_thresh, score_thresh>>]
    /\ UNCHANGED <<anchor_vars, n_class, n_rois, config_vars, net, raw_cls_bbox, raw_prob,
                   cls_l, bbox, label, score, nms_calls>>

\* lines 237-269 and 186-188: run the networks on the element, decode, clip, softmax,
\* and enter _suppress
Forward ==
    /\ pc = "loop"
    /\ batch_i <= BatchSize
    /\ \E out \in NetOutputs(n_class, n_rois) :
          /\ net' = out
          /\ raw_cls_bbox' = ClsBbox(out, FeatureLen)
          /\ raw_prob' = softmax(out)
    /\ bbox' = <<>>
    /\ label' = <<>>
    /\ score' = <<>>
    /\ nms_calls' = <<>>
    /\ cls_l' = 1
    /\ pc' = "suppress"
    /\ UNCHANGED <<anchor_vars, n_class, n_rois, config_vars, last_call, err, batch_i,
                   bboxes, labels, scores>>

\* lines 190-201: one class; reading an attribute never assigned raises AttributeError
SuppressClass ==
    /\ pc = "suppress"
    /\ cls_l < n_class
    /\ IF ~score_thresh.set \/ ~nms_thresh.set
       THEN Leave("AttributeError")
       ELSE LET c == SuppressOne(cls_l)
            IN  /\ bbox' = Accumulate(bbox, c.bbox)
                /\ score' = Accumulate(score, c.score)
                /\ label' = Accumulate(label, c.label)
                /\ nms_calls' = Append(nms_calls, [l |-> c.l, cand |-> c.cand,
                                                   keep |-> c.keep,
                                                   score_thresh |-> c.score_thresh,
                                                   nms_thresh |-> c.nms_thresh])
                /\ cls_l' = cls_l + 1
                /\ UNCHANGED <<pc, err, batch_i, net, raw_cls_bbox, raw_prob,
                               bboxes, labels, scores>>
    /\ UNCHANGED <<anchor_vars, n_class, n_rois, config_vars, last_call>>

\* lines 203-206 and 272-274: np.concatenate of an empty list raises ValueError
SuppressReturn ==
    /\ pc = "suppress"
    /\ cls_l >= n_class
    /\ IF bbox = <<>>
       THEN Leave("ValueError")
       ELSE /\ bboxes' = Append(bboxes, Concat(bbox))
            /\ labels' = Append(labels, Concat(label))
            /\ scores' = Append(scores, Concat(score))
            /\ batch_i' = batch_i + 1
            /\ pc' = "loop"
            /\ UNCHANGED <<err, net, raw_cls_bbox, raw_prob, cls_l, bbox, label, score,
                           nms_calls>>
    /\ UNCHANGED <<anchor_vars, n_class, n_rois, config_vars, last_call>>

\* line 276
PredictReturn ==
    /\ pc = "loop"
    /\ batch_i > BatchSize
    /\ Leave("none")
    /\ UNCHANGED <<anchor_vars, n_class, n_rois, config_vars, last_call>>

PredictStep ==
    \/ Predict
    \/ Forward
    \/ SuppressClass
    \/ SuppressReturn
    \/ PredictReturn

(***************************************************************************)
(* Specifications                                                          *)
(***************************************************************************)
\* the predictor used from one thread: the configuration changes between predict calls
Init == AnchorIdle /\ PredictorInit

Next ==
    \/ PredictStep
    \/ \E p \in PresetNames : pc = "idle" /\ UsePreset(p)
    \/ \E v \in NmsOverrides : pc = "idle" /\ SetNmsThresh(v)
    \/ \E v \in ScoreOverrides : pc = "idle" /\ SetScoreThresh(v)

Spec == Init /\ [][Next]_vars

\* the predictor shared with a second thread that reconfigures it while predict runs
InitThreads == AnchorIdle /\ PredictorInit /\ n_rois = 1

NextThreads ==
    \/ PredictStep
    \/ \E p \in PresetNames : UsePreset(p)
    \/ \E v \in NmsOverrides : SetNmsThresh(v)
    \/ \E v \in ScoreOverrides : SetScoreThresh(v)

SpecThreads == InitThreads /\ [][NextThreads]_vars

\* get_all_anchors called on every argument of the bounded domain
InitAnchors ==
    /\ AnchorInit
    /\ n_class = 1
    /\ n_rois = 0
    /\ nms_thresh = Unset
    /\ score_thresh = Unset
    /\ last_preset = "none"
    /\ last_call = NoCall
    /\ PredictIdle

NextAnchors ==
    \/ GetBaseAnchors /\ UNCHANGED <<n_class, n_rois, config_vars, last_call, predict_vars>>
    \/ TileAnchors /\ UNCHANGED <<n_class, n_rois, config_vars, last_call, predict_vars>>

SpecAnchors == InitAnchors /\ [][NextAnchors]_vars

(***************************************************************************)
(* Properties                                                              *)
(***************************************************************************)
\* the segments, labels and scores _suppress has produced so far (its three lists, flattened)
OutBbox == IF pc = "suppress" THEN Concat(bbox) ELSE bboxes[Len(bboxes)]

OutLabel == IF pc = "suppress" THEN Concat(label) ELSE labels[Len(labels)]

OutScore == IF pc = "suppress" THEN Concat(score) ELSE scores[Len(scores)]

\* _suppress is running, or has just returned its arrays to predict
InSuppress == pc = "suppress" \/ (pc = "loop" /\ batch_i > 1)

Returned == pc = "loop" /\ batch_i > BatchSize

C2_AnchorClosedForm ==
    /\ generate_anchors(16, <<1 * ScaleDen, 2 * ScaleDen>>)
          = << <<0 * AnchorUnit, 15 * AnchorUnit>>, <<(-8) * AnchorUnit, 23 * AnchorUnit>> >>
    /\ a_pc = "done" =>
          LET stride == a_args.stride
              K == a_args.time_seq_len \div stride
              A == Len(a_args.sizes)
          IN  /\ Len(a_field) = K
              /\ \A k \in 1..K :
                    /\ Len(a_field[k]) = A
                    /\ \A a \in 1..A :
                          a_field[k][a] =
                            << 2 * (stride - 1) - (stride * a_args.sizes[a] - 2)
                                  + (k - 1) * stride * AnchorUnit,
                               2 * (stride - 1) + (stride * a_args.sizes[a] - 2)
                                  + (k - 1) * stride * AnchorUnit >>

C2_Witness ==
    /\ a_pc = "done"
    /\ Len(a_field) >= 2
    /\ Len(a_args.sizes) = 2
    /\ a_args.sizes[1] # a_args.sizes[2]
    /\ a_args.stride >= 2

\* the number of intervals of the grid
AnchorCount == SumSeq([k \in 1..Len(a_field) |-> Len(a_field[k])])

\* C3 as stated: the grid holds (sequence_length // stride) * len(scales) intervals and
\* every one of them has x_min < x_max strictly (all scales are > 0).
C3_StrictIntervals ==
    a_pc = "done" =>
        /\ AnchorCount = (a_args.time_seq_len \div a_args.stride) * Len(a_args.sizes)
        /\ \A k \in 1..Len(a_field) : \A a \in 1..Len(a_field[k]) :
              a_field[k][a][1] < a_field[k][a][2]

\* C3 amended: the grid holds (sequence_length // stride) * len(scales) intervals, every
\* interval has x_max - x_min = stride * scale - 1, so x_min < x_max exactly when
\* stride * scale > 1 (x_min = x_max when stride * scale = 1).
C3_CountAndWidth ==
    a_pc = "done" =>
        /\ AnchorCount = (a_args.time_seq_len \div a_args.stride) * Len(a_args.sizes)
        /\ \A k \in 1..Len(a_field) :
              /\ Len(a_field[k]) = Len(a_args.sizes)
              /\ \A a \in 1..Len(a_field[k]) :
                    /\ ScaleDen * (a_field[k][a][2] - a_field[k][a][1])
                          = AnchorUnit * (a_args.stride * a_args.sizes[a] - ScaleDen)
                    /\ (a_field[k][a][1] < a_field[k][a][2])
                          <=> (a_args.stride * a_args.sizes[a] > ScaleDen)

C3_Witness ==
    /\ a_pc = "done"
    /\ a_args.time_seq_len % a_args.stride # 0
    /\ Len(a_field) >= 2
    /\ \E a \in 1..Len(a_args.sizes) : a_field[1][a][1] = a_field[1][a][2]
    /\ \E a \in 1..Len(a_args.sizes) : a_field[1][a][1] < a_field[1][a][2]

\* C4: every decoded interval handed to _suppress satisfies
\* 0 <= x_min <= x_max <= sequence_length after clipping.
C4_ClippedAndOrdered ==
    pc = "suppress" =>
        \A r \in 1..Len(raw_cls_bbox) : \A c \in 1..Len(raw_cls_bbox[r]) :
            /\ 0 <= raw_cls_bbox[r][c][1]
            /\ raw_cls_bbox[r][c][1] <= raw_cls_bbox[r][c][2]
            /\ raw_cls_bbox[r][c][2] <= FeatureLen * CU

\* C5: (nms_thresh, score_thresh) is what the most recent use_preset call with a valid
\* name assigned, (0.3, 0.7) for 'visualize' and (0.3, 0.05) for 'evaluate'; a call with
\* any other name has raised and left both thresholds as they were.
C5_UsePreset ==
    /\ last_preset = "visualize" =>
          /\ nms_thresh = [set |-> TRUE, val |-> 30]
          /\ score_thresh = [set |-> TRUE, val |-> 70]
    /\ last_preset = "evaluate" =>
          /\ nms_thresh = [set |-> TRUE, val |-> 30]
          /\ score_thresh = [set |-> TRUE, val |-> 5]
    /\ last_call.op = "use_preset" =>
          IF last_call.arg \in {"visualize", "evaluate"}
          THEN ~last_call.raised /\ last_preset = last_call.arg
          ELSE last_call.raised /\ <<nms_thresh, score_thresh>> = last_call.pre

C5_Witness ==
    /\ last_call.op = "use_preset"
    /\ last_call.arg = "invalid"
    /\ last_preset = "visualize"
    /\ last_call.pre = << [set |-> TRUE, val |-> 30], [set |-> TRUE, val |-> 70] >>

\* nms_thresh and score_thresh have been assigned and are positive (the normalization
\* vectors are the two-element defaults of __init__)
ConfigValid ==
    /\ nms_thresh.set /\ nms_thresh.val > 0
    /\ score_thresh.set /\ score_thresh.val > 0
    /\ Len(loc_normalize_mean) = 2 /\ Len(loc_normalize_std) = 2

\* C6: predict never has run the networks on a batch element while the configuration
\* is invalid.
C6_FailFastConfig == pc = "suppress" => ConfigValid

\* C7: every detection emitted by _suppress is (decoded segment, l - 1, score) of some
\* proposal r and foreground class 1 <= l <= n_class - 1 with score[r, l] > score_thresh
\* strictly; labels lie in [0, n_class - 2].
C7_DetectionsOrigin ==
    InSuppress =>
        \A i \in 1..Len(OutLabel) :
            /\ OutLabel[i] \in 0..(n_class - 2)
            /\ \E r \in 1..Len(raw_prob) : \E l \in 1..(n_class - 1) :
                  /\ raw_prob[r][l + 1][1] * ThreshDen > score_thresh.val * raw_prob[r][l + 1][2]
                  /\ OutBbox[i] = raw_cls_bbox[r][l + 1]
                  /\ OutScore[i] = raw_prob[r][l + 1]
                  /\ OutLabel[i] = l - 1

C7_Witness ==
    /\ Returned
    /\ Len(OutLabel) >= 1
    /\ \E r \in 1..Len(raw_prob) :
          /\ raw_prob[r][2][1] * ThreshDen = score_thresh.val * raw_prob[r][2][2]
          /\ \A i \in 1..Len(OutLabel) :
                OutLabel[i] = 0 => OutBbox[i] # raw_cls_bbox[r][2]

\* C8: _suppress never raises: a predict called with both thresholds assigned ends
\* without an exception, whatever n_class >= 1 and the scores are.
C8_EmptyIsNotAnError ==
    (last_call.op = "predict" /\ last_call.pre[1].set /\ last_call.pre[2].set)
        => err = "none"

\* C9: one predict call filters and suppresses all its classes with one single
\* (nms_thresh, score_thresh) pair, whatever is interleaved with it.
C9_OneThresholdPairPerCall ==
    \A j, k \in 1..Len(nms_calls) :
        /\ nms_calls[j].score_thresh = nms_calls[k].score_thresh
        /\ nms_calls[j].nms_thresh = nms_calls[k].nms_thresh

\* the detections of the k-th non_maximum_suppression call, in the order of its keep
KeptOf(k) ==
    LET c == nms_calls[k]
    IN  [i \in 1..Len(c.keep) |->
            [bbox |-> raw_cls_bbox[c.cand[c.keep[i]]][c.l + 1],
             label |-> c.l - 1,
             score |-> raw_prob[c.cand[c.keep[i]]][c.l + 1]]]

\* C10: the output of _suppress is the per-class results concatenated in ascending class
\* order: labels are non-decreasing, the three arrays have equal length and are aligned,
\* and within one label the detections keep the order of the indices suppression returned.
C10_AscendingClassOrder ==
    InSuppress =>
        /\ Len(OutBbox) = Len(OutLabel)
        /\ Len(OutScore) = Len(OutLabel)
        /\ \A i, j \in 1..Len(OutLabel) : i < j => OutLabel[i] <= OutLabel[j]
        /\ \A k \in 1..Len(nms_calls) : nms_calls[k].l = k
        /\ [i \in 1..Len(OutLabel) |->
               [bbox |-> OutBbox[i], label |-> OutLabel[i], score |-> OutScore[i]]]
             = Concat([k \in 1..Len(nms_calls) |-> KeptOf(k)])

C10_Witness ==
    /\ Returned
    /\ Len(nms_calls) >= 2
    /\ \E i, j \in 1..Len(OutLabel) : OutLabel[i] # OutLabel[j]
    /\ \E k \in 1..Len(nms_calls) : nms_calls[k].keep = <<2, 1>>

====
